---- MODULE Spec2Model ----
(***************************************************************************)
(* The disaster response coordination server.                              *)
(*                                                                         *)
(* Spec:      the cache-through layer, server/src/services/supabase.js     *)
(*            (initializeSupabase, the mock client, getOrSetCache,         *)
(*            cleanExpiredCache and the hourly sweep timer), with          *)
(*            concurrent calls from the cached routes.                     *)
(* SpecBoot:  the startup of the entry point: module loading, then         *)
(*            dotenv.config(), then initializeSupabase().                  *)
(* SpecRoute: the four cached routes of routes/geocode.js and              *)
(*            routes/socialMedia.js with their validation, their adapters  *)
(*            and the external calls of the adapters, on top of            *)
(*            getOrSetCache.                                               *)
(* SpecKeys:  the cacheKey template literals of the four routes.           *)
(* SpecCrud:  the routes of routes/disasters.js and routes/resources.js    *)
(*            behind authMiddleware and validate, with the real and the    *)
(*            mock datastore client and two concurrent requests.           *)
(* SpecError: middleware/errorHandler.js applied to the errors handed to   *)
(*            next().                                                      *)
(*                                                                         *)
(* Every await is a scheduling point, so a call is a sequence of steps:    *)
(* the select is issued (Call), the select answers and the continuation    *)
(* compares the expiry (Select), the fetcher settles (FetchResolve /       *)
(* FetchReject, or the adapter steps of SpecRoute), the upsert answers     *)
(* (Upsert).  Times are milliseconds since the module was loaded.          *)
(***************************************************************************)
EXTENDS Integers, FiniteSets, Sequences, TLC

VARIABLES env, supabase, timer, now, cache, req, sweep, started,
          boot, http, pair, store, api, fault

vars == <<env, supabase, timer, now, cache, req, sweep, started,
          boot, http, pair, store, api, fault>>

(* ------------------------------ bounds --------------------------------- *)

\* the clock is observed at the instants 0..MaxInstant of InstantAt
MaxInstant == 2

\* at most MaxCalls getOrSetCache calls are started in one behaviour
MaxCalls == 2

\* concurrent request slots
Procs == {"r1", "r2"}

\* results a fetcher may resolve with (opaque JSON for the cache)
Values == {"v1", "v2"}

(* --------------------------- configuration ----------------------------- *)

\* process.env.X is undefined (or empty) when the setting is absent
Absent == ""

UrlPlaceholder == "your_supabase_url_here"

KeyPlaceholder == "your_supabase_service_role_key_here"

RealUrl == "https://project.supabase.co"

RealKey == "service-role-key"

\* the values of the settings template (README, deploy script)
GeminiPlaceholder == "your_gemini_api_key_here"

MapboxPlaceholder == "your_mapbox_token_here"

BearerPlaceholder == "your_twitter_bearer_token_here"

RealGemini == "gemini-api-key"

RealMapbox == "mapbox-token"

RealBearer == "twitter-bearer-token"

\* the settings of the cache layer's behaviours: every datastore setting,
\* the adapters configured
Envs ==
  [SUPABASE_URL : {Absent, UrlPlaceholder, RealUrl},
   SUPABASE_SERVICE_ROLE_KEY : {Absent, KeyPlaceholder, RealKey},
   GEMINI_API_KEY : {RealGemini},
   MAPBOX_TOKEN : {RealMapbox},
   TWITTER_BEARER : {RealBearer}]

\* a .env file that sets nothing
NoFile ==
  [SUPABASE_URL |-> Absent, SUPABASE_SERVICE_ROLE_KEY |-> Absent,
   GEMINI_API_KEY |-> Absent, MAPBOX_TOKEN |-> Absent,
   TWITTER_BEARER |-> Absent]

\* JavaScript truthiness of a string setting
Truthy(s) == s # Absent

\* initializeSupabase, lines 11-14: both settings present and not placeholders
ClientCredentialsValid(e) ==
  /\ Truthy(e.SUPABASE_URL)
  /\ Truthy(e.SUPABASE_SERVICE_ROLE_KEY)
  /\ e.SUPABASE_URL # UrlPlaceholder
  /\ e.SUPABASE_SERVICE_ROLE_KEY # KeyPlaceholder

\* getOrSetCache lines 99-100, cleanExpiredCache lines 158-159, module level
\* lines 176-177: only SUPABASE_URL is looked at
hasValidCredentials(e) ==
  Truthy(e.SUPABASE_URL) /\ e.SUPABASE_URL # UrlPlaceholder

\* findNearbyResources, lines 132-139: mock mode, [] is returned
findNearbyResources_mockMode(e) == ~hasValidCredentials(e)

\* initializeSupabase: the client handed to the caller, "real" or "mock"
initializeSupabase_client(sb, e) ==
  IF sb = "null" /\ ~ClientCredentialsValid(e) THEN "mock" ELSE "real"

\* initializeSupabase: the module-level singleton after the call
initializeSupabase_singleton(sb, e) ==
  IF sb = "null" /\ ClientCredentialsValid(e) THEN "client" ELSE sb

(* ------------------------------- time ---------------------------------- *)

\* one hour in milliseconds
HourMs == 60 * 60 * 1000

\* setInterval(cleanExpiredCache, 60 * 60 * 1000)
SweepIntervalMs == 60 * 60 * 1000

\* the instants the clock is observed at: module load, then every full hour
\* and the millisecond after it (0, 1h, 1h + 1, 2h, 2h + 1, ...)
InstantAt(i) ==
  IF i = 0 THEN 0
  ELSE IF i % 2 = 1 THEN ((i + 1) \div 2) * HourMs
  ELSE (i \div 2) * HourMs + 1

Instants == { InstantAt(i) : i \in 0..MaxInstant }

\* getOrSetCache(key, fetcher, ttlHours = 1)
ttlHoursDefault == 1

\* a default parameter takes its default when the argument is not passed
ttlHoursParam(args) == IF Len(args) = 0 THEN ttlHoursDefault ELSE args[1]

\* new Date(Date.now() + ttlHours * 60 * 60 * 1000)
ExpiresAt(t, ttlHours) == t + ttlHours * 60 * 60 * 1000

(* ------------------------------ strings -------------------------------- *)

\* a JavaScript string is the sequence of its characters

Str_colon == <<":">>

Str_undefined == <<"u", "n", "d", "e", "f", "i", "n", "e", "d">>

Str_geocode == <<"g", "e", "o", "c", "o", "d", "e">>

Str_reverse_geocode ==
  <<"r", "e", "v", "e", "r", "s", "e", "_", "g", "e", "o", "c", "o", "d", "e">>

Str_twitter == <<"t", "w", "i", "t", "t", "e", "r">>

Str_official_updates ==
  <<"o", "f", "f", "i", "c", "i", "a", "l", "_",
    "u", "p", "d", "a", "t", "e", "s">>

\* 'disaster emergency', the query fetchTwitterPosts gets for a missing one
Str_disaster_emergency ==
  <<"d", "i", "s", "a", "s", "t", "e", "r", " ",
    "e", "m", "e", "r", "g", "e", "n", "c", "y">>

\* a body or query member: undefined when the request does not carry it
NoParam == [given |-> FALSE, s |-> << >>]

Param(s) == [given |-> TRUE, s |-> s]

\* JavaScript truthiness of a member: undefined and '' are falsy
ParamTruthy(x) == x.given /\ Len(x.s) > 0

\* ${x} in a template literal: undefined renders as the word undefined
TemplateString(x) == IF x.given THEN x.s ELSE Str_undefined

\* the members the cached routes read
NoQuery ==
  [text |-> NoParam, lat |-> NoParam, lon |-> NoParam,
   disaster_id |-> NoParam, query |-> NoParam, source |-> NoParam]

\* the UTF-8 byte of the characters request texts are made of
CharCode(c) == IF c = ":" THEN 58 ELSE 97

B64Alphabet ==
  <<"A", "B", "C", "D", "E", "F", "G", "H", "I", "J", "K", "L", "M",
    "N", "O", "P", "Q", "R", "S", "T", "U", "V", "W", "X", "Y", "Z",
    "a", "b", "c", "d", "e", "f", "g", "h", "i", "j", "k", "l", "m",
    "n", "o", "p", "q", "r", "s", "t", "u", "v", "w", "x", "y", "z",
    "0", "1", "2", "3", "4", "5", "6", "7", "8", "9", "+", "/">>

B64Char(n) == B64Alphabet[n + 1]

\* Buffer.from(text).toString('base64'): each group of three bytes gives
\* four characters, a last group of one or two bytes is padded with =
Base64(text) ==
  [j \in 1..(4 * ((Len(text) + 2) \div 3)) |->
     LET g == (j - 1) \div 4
         Byte(k) == IF 3 * g + k <= Len(text)
                    THEN CharCode(text[3 * g + k]) ELSE 0
         n == Byte(1) * 65536 + Byte(2) * 256 + Byte(3)
     IN  CASE (j - 1) % 4 = 0 -> B64Char(n \div 262144)
           [] (j - 1) % 4 = 1 -> B64Char((n \div 4096) % 64)
           [] (j - 1) % 4 = 2 ->
                IF 3 * g + 2 > Len(text) THEN "="
                ELSE B64Char((n \div 64) % 64)
           [] (j - 1) % 4 = 3 ->
                IF 3 * g + 3 > Len(text) THEN "=" ELSE B64Char(n % 64)]

(* ---------------------------- cache table ------------------------------ *)

\* the routes that call getOrSetCache: POST /geocode, GET /geocode/reverse,
\* GET /social-media/twitter, GET /social-media/official-updates
CachedRoutes == {"geocode", "reverse_geocode", "twitter", "official_updates"}

\* the routes that the behaviours of the model send requests to
Routes == {"geocode", "official_updates"}

\* the request input that the key encodes
DefaultQuery ==
  [NoQuery EXCEPT !.text = Param(<<"a">>), !.disaster_id = Param(<<"a">>),
                  !.source = Param(<<"a">>)]

Inputs == {DefaultQuery}

\* the arguments each route passes after (cacheKey, fetcher): none
ttlHoursArgs(route) == << >>

\* the cacheKey template literal of each cached route
CacheKey(route, q) ==
  CASE route = "geocode" ->
         Str_geocode \o Str_colon \o Base64(q.text.s)
    [] route = "reverse_geocode" ->
         Str_reverse_geocode \o Str_colon \o TemplateString(q.lat)
           \o Str_colon \o TemplateString(q.lon)
    [] route = "twitter" ->
         Str_twitter \o Str_colon \o TemplateString(q.disaster_id)
           \o Str_colon \o TemplateString(q.query)
    [] route = "official_updates" ->
         Str_official_updates \o Str_colon \o TemplateString(q.disaster_id)
           \o Str_colon \o TemplateString(q.source)

NoKey == <<"", "">>

NoValue == ""

\* data: null of a select
NoRow == [key |-> NoKey, value |-> NoValue, expires_at |-> -1, written_at |-> -1]

\* insert that ignores a conflict on the key: the first write stays
UpsertRow_keepFirst(rows, row) ==
  IF \E r \in rows : r.key = row.key THEN rows ELSE rows \cup {row}

\* a plain insert, which keeps the old row of the key
UpsertRow_insert(rows, row) == rows \cup {row}

\* upsert on the primary key (key text PRIMARY KEY): the row of the key is
\* replaced.  written_at records Date.now() of the call and is not a column
UpsertRow(rows, row) == { r \in rows : r.key # row.key } \cup {row}

\* .select('value, expires_at').eq('key', key).single(): the row when exactly
\* one matches, data: null (and an error the caller drops) otherwise
SelectSingle(rows, key) ==
  LET match == { r \in rows : r.key = key }
  IN  IF Cardinality(match) = 1 THEN CHOOSE r \in match : TRUE ELSE NoRow

\* an entry still counts as unexpired at its expiry instant
IsHit_inclusive(data, t) == data # NoRow /\ data.expires_at >= t

\* data && new Date(data.expires_at) > new Date()
IsHit(data, t) == data # NoRow /\ data.expires_at > t

\* rows expiring exactly at the timestamp are deleted too
DeleteFilter_lte(row, ts) == row.expires_at <= ts

\* the comparison turned around
DeleteFilter_gt(row, ts) == row.expires_at > ts

\* .delete().lt('expires_at', new Date().toISOString())
DeleteFilter(row, ts) == row.expires_at < ts

\* the rows the delete leaves
DeleteExpired(rows, ts) == { r \in rows : ~DeleteFilter(r, ts) }

(* ------------------------------ requests ------------------------------- *)

NoOutcome == [kind |-> "none", value |-> NoValue]

Returned(v) == [kind |-> "value", value |-> v]

Thrown(name) == [kind |-> name, value |-> NoValue]

\* one getOrSetCache call.  pc, key, client, bypass, ttlHours, fresh and
\* pending are the call's locals; the rest records what the call did:
\* found/readErr what the select answered, hit the branch of line 113,
\* rejected that the fetcher threw, putErr that the write-back failed,
\* reads/writes the selects and upserts sent, calls the fetcher invocations
IdleReq ==
  [pc |-> "idle", key |-> NoKey, client |-> "none", bypass |-> FALSE,
   ttlHours |-> 0, found |-> FALSE, readErr |-> FALSE, hit |-> FALSE,
   fresh |-> NoValue, rejected |-> FALSE, pending |-> NoRow,
   putErr |-> FALSE, outcome |-> NoOutcome,
   reads |-> 0, writes |-> 0, calls |-> 0]

\* one cleanExpiredCache run: ts is the timestamp of line 168, status how the
\* last run ended, removed the rows its delete took away
IdleSweep == [pc |-> "idle", ts |-> 0, status |-> "none", removed |-> {}]

\* the entry point has loaded its modules and its configuration
Serving == [phase |-> "serving", file |-> NoFile]

\* the result tags of an adapter: its mock result, a result of the upstream
MockValue == "mock"

LiveValue == "live"

ErrorBody == "error"

\* one HTTP request to a cached route.  pc is the handler's position, ext
\* the axios call in flight and extAt when it was sent; the rest records
\* what the request did: extCalls the external calls sent, answer what the
\* last one ended with, extracted the updates the scraper pushed, list what
\* scrapeOfficialUpdates returned, produced the adapter's result tag
IdleHttp ==
  [pc |-> "idle", route |-> "none", q |-> NoQuery,
   ext |-> "none", extAt |-> 0, extCalls |-> 0, answer |-> "none",
   extracted |-> -1, list |-> << >>, produced |-> "none",
   status |-> 0, body |-> NoValue]

NoPair == [pc |-> "none"]

\* the two tables of the CRUD routes in the datastore, and per table the
\* number of rows ever inserted (the datastore numbers its rows)
EmptyStore ==
  [disasters |-> {}, resources |-> {},
   seq |-> [disasters |-> 0, resources |-> 0]]

\* a number member of a JSON body: undefined, or a number
NoNum == [given |-> FALSE, n |-> 0]

Num(n) == [given |-> TRUE, n |-> n]

\* a request without a JSON body
NoBody ==
  [title |-> NoParam, name |-> NoParam, lat |-> NoNum, lon |-> NoNum,
   isArray |-> FALSE, resources |-> << >>]

\* location = null
NullLocation == [point |-> FALSE, lon |-> 0, lat |-> 0]

\* data: null of a datastore answer
NoRecord == [id |-> ""]

\* one HTTP request to /disasters or /resources.  pc is the handler's
\* position (which datastore call it awaits); user is what authMiddleware
\* attached, handler the route the router dispatched to, existing the row
\* the first select answered, location and trail the values the handler
\* prepared for its write.  The rest records what the request did: writes
\* the rows its insert, update or delete changed, emitted the events it sent
\* through io.emit, dbError that a datastore call answered an error,
\* status and data the response
IdleApi ==
  [pc |-> "idle", table |-> "", method |-> "", path |-> "",
   handler |-> <<"", "">>, user |-> [id |-> "", role |-> ""],
   query |-> NoQuery, body |-> NoBody, existing |-> NoRecord,
   found |-> FALSE, location |-> NullLocation, trail |-> << >>,
   writes |-> 0, emitted |-> << >>, dbError |-> FALSE,
   status |-> 0, data |-> NoRecord]

\* no error was handed to errorHandler
NoFault == [pc |-> "none"]


\* module level, lines 175-181: the interval timer is set when the settings
\* the module sees while it is evaluated have a valid SUPABASE_URL
SweepTimer(e) ==
  [scheduled |-> hasValidCredentials(e), due |-> SweepIntervalMs]

Init ==
  /\ env \in Envs
  /\ supabase = "null"
  /\ timer = SweepTimer(env)
  /\ now = 0
  /\ cache = {}
  /\ req = [p \in Procs |-> IdleReq]
  /\ sweep = IdleSweep
  /\ started = 0
  /\ boot = Serving
  /\ http = IdleHttp
  /\ pair = NoPair
  /\ store = EmptyStore
  /\ api = [p \in Procs |-> IdleApi]
  /\ fault = NoFault

\* the clock moves to a later observed instant
Tick ==
  /\ \E t \in Instants : t > now /\ now' = t
  /\ UNCHANGED <<env, supabase, timer, cache, req, sweep, started, boot, http,
                 pair, store, api, fault>>

\* a route calls getOrSetCache(cacheKey, fetcher): lines 96-111 up to the
\* first await; without valid credentials the fetcher is awaited directly
getOrSetCache_enter(p, route, input) ==
  /\ started' = started + 1
  /\ supabase' = initializeSupabase_singleton(supabase, env)
  /\ LET client == initializeSupabase_client(supabase, env)
         r0 == [IdleReq EXCEPT !.key = CacheKey(route, input),
                               !.client = client,
                               !.ttlHours = ttlHoursParam(ttlHoursArgs(route))]
     IN  IF ~hasValidCredentials(env)
         THEN req' = [req EXCEPT ![p] =
                [r0 EXCEPT !.pc = "fetch", !.bypass = TRUE, !.calls = 1]]
         ELSE req' = [req EXCEPT ![p] =
                [r0 EXCEPT !.pc = "select", !.reads = 1]]

\* a request slot whose call has settled takes the next call; requests are
\* served once the entry point has started the server
Call(p, route, input) ==
  /\ boot.phase = "serving"
  /\ req[p].pc \in {"idle", "done"}
  /\ started < MaxCalls
  /\ getOrSetCache_enter(p, route, input)
  /\ UNCHANGED <<env, timer, now, cache, sweep, boot, http, pair,
                 store, api, fault>>

\* a hit pushes the expiry of the entry forward
AfterSelect_sliding(p, data, failed) ==
  IF IsHit(data, now)
  THEN /\ req' = [req EXCEPT ![p] =
            [@ EXCEPT !.pc = "done", !.found = TRUE, !.readErr = failed,
                      !.hit = TRUE, !.writes = @ + 1,
                      !.outcome = Returned(data.value)]]
       /\ cache' = UpsertRow(cache,
            [data EXCEPT !.expires_at = ExpiresAt(now, req[p].ttlHours)])
  ELSE /\ req' = [req EXCEPT ![p] =
            [@ EXCEPT !.pc = "fetch", !.found = (data # NoRow),
                      !.readErr = failed, !.calls = @ + 1]]
       /\ cache' = cache

\* the error of the select is thrown to the caller
AfterSelect_surface(p, data, failed) ==
  IF failed
  THEN /\ req' = [req EXCEPT ![p] =
            [@ EXCEPT !.pc = "done", !.readErr = TRUE,
                      !.outcome = Thrown("StorageError")]]
       /\ cache' = cache
  ELSE IF IsHit(data, now)
  THEN /\ req' = [req EXCEPT ![p] =
            [@ EXCEPT !.pc = "done", !.found = TRUE, !.hit = TRUE,
                      !.outcome = Returned(data.value)]]
       /\ cache' = cache
  ELSE /\ req' = [req EXCEPT ![p] =
            [@ EXCEPT !.pc = "fetch", !.found = (data # NoRow),
                      !.calls = @ + 1]]
       /\ cache' = cache

\* the continuation of the select, lines 107-117: only data is taken from the
\* answer; a hit returns data.value, anything else invokes the fetcher
AfterSelect(p, data, failed) ==
  IF IsHit(data, now)
  THEN /\ req' = [req EXCEPT ![p] =
            [@ EXCEPT !.pc = "done", !.found = TRUE, !.readErr = failed,
                      !.hit = TRUE, !.outcome = Returned(data.value)]]
       /\ cache' = cache
  ELSE /\ req' = [req EXCEPT ![p] =
            [@ EXCEPT !.pc = "fetch", !.found = (data # NoRow),
                      !.readErr = failed, !.calls = @ + 1]]
       /\ cache' = cache

\* the select answers: the mock client resolves { data: null, error: null },
\* the real one with the row, or with data: null and an error, for no row
\* (PGRST116) as for a failed query
Select(p) ==
  /\ req[p].pc = "select"
  /\ IF req[p].client = "mock"
     THEN AfterSelect(p, NoRow, FALSE)
     ELSE \/ AfterSelect(p, SelectSingle(cache, req[p].key), FALSE)
          \/ AfterSelect(p, NoRow, TRUE)
  /\ UNCHANGED <<env, supabase, timer, now, sweep, started, boot, http, pair,
                 store, api, fault>>

\* a mock result is returned without being written back
AfterResolve_skipMock(p, v) ==
  /\ cache' = cache
  /\ IF req[p].bypass \/ v = MockValue
     THEN req' = [req EXCEPT ![p] =
            [@ EXCEPT !.pc = "done", !.fresh = v, !.outcome = Returned(v)]]
     ELSE IF req[p].client = "mock"
     THEN req' = [req EXCEPT ![p] =
            [@ EXCEPT !.pc = "done", !.fresh = v, !.putErr = TRUE,
                      !.outcome = Thrown("TypeError")]]
     ELSE req' = [req EXCEPT ![p] =
            [@ EXCEPT !.pc = "upsert", !.fresh = v, !.writes = @ + 1,
                      !.pending = [key |-> req[p].key, value |-> v,
                                   expires_at |-> ExpiresAt(now, req[p].ttlHours),
                                   written_at |-> now]]]

\* the continuation of the fetcher that resolved with v, lines 104 and
\* 117-123.  On the cache path the upsert is sent with the expiry computed
\* now; from() of the mock client has no upsert member, so the call throws
AfterResolve(p, v) ==
  /\ cache' = cache
  /\ IF req[p].bypass
     THEN req' = [req EXCEPT ![p] =
            [@ EXCEPT !.pc = "done", !.fresh = v, !.outcome = Returned(v)]]
     ELSE IF req[p].client = "mock"
     THEN req' = [req EXCEPT ![p] =
            [@ EXCEPT !.pc = "done", !.fresh = v, !.putErr = TRUE,
                      !.outcome = Thrown("TypeError")]]
     ELSE req' = [req EXCEPT ![p] =
            [@ EXCEPT !.pc = "upsert", !.fresh = v, !.writes = @ + 1,
                      !.pending = [key |-> req[p].key, value |-> v,
                                   expires_at |-> ExpiresAt(now, req[p].ttlHours),
                                   written_at |-> now]]]

FetchResolve(p, v) ==
  /\ req[p].pc = "fetch"
  /\ AfterResolve(p, v)
  /\ UNCHANGED <<env, supabase, timer, now, sweep, started, boot, http, pair,
                 store, api, fault>>

\* the failure is cached as an empty value and returned
AfterReject_tombstone(p) ==
  /\ cache' = IF req[p].bypass \/ req[p].client = "mock" THEN cache
              ELSE UpsertRow(cache,
                     [key |-> req[p].key, value |-> NoValue,
                      expires_at |-> ExpiresAt(now, req[p].ttlHours),
                      written_at |-> now])
  /\ req' = [req EXCEPT ![p] =
       [@ EXCEPT !.pc = "done", !.rejected = TRUE,
                 !.writes = IF req[p].bypass \/ req[p].client = "mock"
                            THEN @ ELSE @ + 1,
                 !.outcome = Returned(NoValue)]]

\* the fetcher rejects at line 104 or 117: nothing catches it, the call
\* rejects with the fetcher's error
AfterReject(p) ==
  /\ cache' = cache
  /\ req' = [req EXCEPT ![p] =
       [@ EXCEPT !.pc = "done", !.rejected = TRUE,
                 !.outcome = Thrown("ProducerError")]]

FetchReject(p) ==
  /\ req[p].pc = "fetch"
  /\ AfterReject(p)
  /\ UNCHANGED <<env, supabase, timer, now, sweep, started, boot, http, pair,
                 store, api, fault>>

\* the upsert answers, lines 119-125: the answer is not looked at and fresh
\* is returned whether the row was written (ok) or not
AfterUpsert(p, ok) ==
  /\ cache' = IF ok THEN UpsertRow(cache, req[p].pending) ELSE cache
  /\ req' = [req EXCEPT ![p] =
       [@ EXCEPT !.pc = "done", !.putErr = ~ok, !.pending = NoRow,
                 !.outcome = Returned(req[p].fresh)]]

Upsert(p) ==
  /\ req[p].pc = "upsert"
  /\ \E ok \in BOOLEAN : AfterUpsert(p, ok)
  /\ UNCHANGED <<env, supabase, timer, now, sweep, started, boot, http, pair,
                 store, api, fault>>

\* the interval timer fires cleanExpiredCache, lines 154-168 up to the await;
\* from() of the mock client has no delete member, so the call throws.  A
\* run starts no earlier than its due time and after the previous run ended
SweepStart ==
  /\ timer.scheduled
  /\ now >= timer.due
  /\ sweep.pc = "idle"
  /\ timer' = [timer EXCEPT !.due = @ + SweepIntervalMs]
  /\ supabase' = initializeSupabase_singleton(supabase, env)
  /\ LET client == initializeSupabase_client(supabase, env)
     IN  IF ~hasValidCredentials(env)
         THEN sweep' = [IdleSweep EXCEPT !.status = "skipped"]
         ELSE IF client = "mock"
         THEN sweep' = [IdleSweep EXCEPT !.status = "TypeError", !.ts = now]
         ELSE sweep' = [pc |-> "delete", ts |-> now, status |-> "none",
                        removed |-> {}]
  /\ UNCHANGED <<env, now, cache, req, started, boot, http, pair,
                 store, api, fault>>

\* the delete answers, lines 165-172: an error is logged and nothing else
AfterDelete(ok) ==
  /\ cache' = IF ok THEN DeleteExpired(cache, sweep.ts) ELSE cache
  /\ sweep' = [sweep EXCEPT !.pc = "idle",
                            !.status = IF ok THEN "ok" ELSE "error",
                            !.removed = cache \ cache']

SweepDelete ==
  /\ sweep.pc = "delete"
  /\ \E ok \in BOOLEAN : AfterDelete(ok)
  /\ UNCHANGED <<env, supabase, timer, now, req, started, boot, http, pair,
                 store, api, fault>>

Next ==
  \/ Tick
  \/ \E p \in Procs, route \in Routes, input \in Inputs : Call(p, route, input)
  \/ \E p \in Procs : Select(p)
  \/ \E p \in Procs, v \in Values : FetchResolve(p, v)
  \/ \E p \in Procs : FetchReject(p)
  \/ \E p \in Procs : Upsert(p)
  \/ SweepStart
  \/ SweepDelete

Spec == Init /\ [][Next]_vars

(* ------------------------------ startup -------------------------------- *)

\* The entry point: its imports are evaluated first (they load supabase.js
\* through the routes), then its body runs dotenv.config(), creates the
\* client and starts listening.  env is process.env, boot.file the .env file

\* dotenv.config(): a setting of the file is taken unless the process
\* environment has it already
DotenvMerge(e, file) ==
  [SUPABASE_URL |->
     IF e.SUPABASE_URL # Absent THEN e.SUPABASE_URL ELSE file.SUPABASE_URL,
   SUPABASE_SERVICE_ROLE_KEY |->
     IF e.SUPABASE_SERVICE_ROLE_KEY # Absent THEN e.SUPABASE_SERVICE_ROLE_KEY
     ELSE file.SUPABASE_SERVICE_ROLE_KEY,
   GEMINI_API_KEY |->
     IF e.GEMINI_API_KEY # Absent THEN e.GEMINI_API_KEY
     ELSE file.GEMINI_API_KEY,
   MAPBOX_TOKEN |->
     IF e.MAPBOX_TOKEN # Absent THEN e.MAPBOX_TOKEN ELSE file.MAPBOX_TOKEN,
   TWITTER_BEARER |->
     IF e.TWITTER_BEARER # Absent THEN e.TWITTER_BEARER
     ELSE file.TWITTER_BEARER]

InitBoot ==
  /\ env \in Envs
  /\ boot \in [phase : {"import"}, file : Envs]
  /\ supabase = "null"
  /\ timer = [scheduled |-> FALSE, due |-> SweepIntervalMs]
  /\ now = 0
  /\ cache = {}
  /\ req = [p \in Procs |-> IdleReq]
  /\ sweep = IdleSweep
  /\ started = 0
  /\ http = IdleHttp
  /\ pair = NoPair
  /\ store = EmptyStore
  /\ api = [p \in Procs |-> IdleApi]
  /\ fault = NoFault

\* the import of ./services/supabase.js evaluates the module, lines 175-181
\* included
LoadSupabaseModule ==
  /\ boot.phase = "import"
  /\ timer' = SweepTimer(env)
  /\ boot' = [boot EXCEPT !.phase = "config"]
  /\ UNCHANGED <<env, supabase, now, cache, req, sweep, started, http, pair,
                 store, api, fault>>

\* dotenv.config() of the entry point
DotenvConfig ==
  /\ boot.phase = "config"
  /\ env' = DotenvMerge(env, boot.file)
  /\ boot' = [boot EXCEPT !.phase = "init"]
  /\ UNCHANGED <<supabase, timer, now, cache, req, sweep, started, http, pair,
                 store, api, fault>>

\* const supabase = initializeSupabase(), then the routes are mounted and the
\* server listens
StartServer ==
  /\ boot.phase = "init"
  /\ supabase' = initializeSupabase_singleton(supabase, env)
  /\ boot' = [boot EXCEPT !.phase = "serving"]
  /\ UNCHANGED <<env, timer, now, cache, req, sweep, started, http, pair,
                 store, api, fault>>

NextBoot ==
  \/ LoadSupabaseModule
  \/ DotenvConfig
  \/ StartServer
  \/ \E p \in Procs, route \in Routes, input \in Inputs : Call(p, route, input)

SpecBoot == InitBoot /\ [][NextBoot]_vars

(* ------------------------------- routes -------------------------------- *)

\* The four cached routes with their adapters.  One request is served at a
\* time, through the request slot RouteProc of getOrSetCache

RouteProc == "r1"

\* the adapter settings of the routes' behaviours: none set, all left at
\* the template's value, all set, and one of the two geocoding settings set
AdapterSettings ==
  { <<Absent, Absent, Absent>>,
    <<GeminiPlaceholder, MapboxPlaceholder, BearerPlaceholder>>,
    <<RealGemini, RealMapbox, RealBearer>>,
    <<RealGemini, Absent, Absent>>,
    <<Absent, RealMapbox, Absent>> }

\* the settings of the routes' behaviours: the datastore not configured or
\* configured, with each of the adapter settings
RouteEnvs ==
  { [SUPABASE_URL |-> d[1], SUPABASE_SERVICE_ROLE_KEY |-> d[2],
     GEMINI_API_KEY |-> a[1], MAPBOX_TOKEN |-> a[2], TWITTER_BEARER |-> a[3]] :
      d \in {<<Absent, Absent>>, <<RealUrl, RealKey>>},
      a \in AdapterSettings }

\* z.string().max(500)
MaxTextLen == 500

\* a schema without the upper limit on the text
geocodeSchema_ok_nomax(text) == text.given /\ Len(text.s) >= 1

\* validate(geocodeSchema): text is a string of 1 to 500 characters
geocodeSchema_ok(text) ==
  text.given /\ Len(text.s) >= 1 /\ Len(text.s) <= MaxTextLen

TextOfLen(n) == [i \in 1..n |-> "a"]

\* the requests the behaviours send
RouteRequests ==
  { [route |-> "geocode", q |-> [NoQuery EXCEPT !.text = x]] :
      x \in {NoParam, Param(<< >>), Param(<<"a">>),
             Param(TextOfLen(MaxTextLen + 1))} }
  \cup
  { [route |-> "reverse_geocode", q |-> [NoQuery EXCEPT !.lat = x, !.lon = y]] :
      x \in {NoParam, Param(<<"a">>)}, y \in {NoParam, Param(<<"a">>)} }
  \cup
  { [route |-> "twitter",
     q |-> [NoQuery EXCEPT !.disaster_id = Param(<<"a">>),
                           !.query = Param(<<"a">>)]],
    [route |-> "official_updates",
     q |-> [NoQuery EXCEPT !.disaster_id = Param(<<"a">>),
                           !.source = Param(<<"a">>)]] }

\* errorHandler: the status of an error by its name or code
ErrorStatus(name) ==
  IF name = "ValidationError" THEN 400
  ELSE IF name = "UnauthorizedError" THEN 401
  ELSE IF name = "PGRST116" THEN 404
  ELSE 500

\* performGeocoding: !geminiApiKey || !mapboxToken
performGeocoding_mock(e) ==
  ~Truthy(e.GEMINI_API_KEY) \/ ~Truthy(e.MAPBOX_TOKEN)

\* GET /geocode/reverse: !mapboxToken
reverse_mock(e) == ~Truthy(e.MAPBOX_TOKEN)

\* GET /social-media/twitter: !twitterBearer
twitter_mock(e) == ~Truthy(e.TWITTER_BEARER)

\* axios without a timeout option: timeout 0, the call waits without limit
NoTimeout == 0

\* axios.get(sourceUrl, { timeout: 10000, ... })
ScrapeTimeoutMs == 10000

\* the timeout option of each axios call
ExtTimeoutMs(ext) == IF ext = "scrape" THEN ScrapeTimeoutMs ELSE NoTimeout

\* how an external call ends when the upstream answers: the expected body, a
\* transport error (network, HTTP status), a body without the expected
\* members
Answers == {"ok", "error", "malformed"}

\* the elements $('article, .news-item, .update') matches: whether each has
\* a non-empty title and a non-empty content
MaxElements == 2

PageElements == [title : BOOLEAN, content : BOOLEAN]

Pages == UNION { [1..n -> PageElements] : n \in 0..MaxElements }

\* source || fallback
SourceLabel(source, fallback) ==
  IF ParamTruthy(source) THEN "source" ELSE fallback

RECURSIVE ExtractUpdates(_, _, _)
\* the each() loop: element i is pushed when title && content
ExtractUpdates(page, i, source) ==
  IF i > Len(page) THEN << >>
  ELSE LET rest == ExtractUpdates(page, i + 1, source)
       IN  IF page[i].title /\ page[i].content
           THEN <<[id |-> i - 1, source |-> SourceLabel(source, "official"),
                   priority |-> "medium", url |-> "sourceUrl"]>> \o rest
           ELSE rest

\* updates.slice(0, 10)
MaxUpdates == 10

Slice(s, n) == SubSeq(s, 1, IF Len(s) < n THEN Len(s) ELSE n)

generateMockOfficialUpdates(source) ==
  <<[id |-> 1, source |-> SourceLabel(source, "City Emergency Management"),
     priority |-> "high", url |-> "#"],
    [id |-> 2, source |-> SourceLabel(source, "National Weather Service"),
     priority |-> "high", url |-> "#"],
    [id |-> 3, source |-> SourceLabel(source, "Red Cross"),
     priority |-> "medium", url |-> "#"]>>

\* the scraped updates are returned even when there are none
scrapeOfficialUpdates_result_noFallback(answer, page, source) ==
  IF answer # "ok" THEN generateMockOfficialUpdates(source)
  ELSE Slice(ExtractUpdates(page, 1, source), MaxUpdates)

\* scrapeOfficialUpdates once axios.get has settled: the catch and the
\* updates.length === 0 test give the mock updates
scrapeOfficialUpdates_result(answer, page, source) ==
  IF answer # "ok" THEN generateMockOfficialUpdates(source)
  ELSE LET updates == ExtractUpdates(page, 1, source)
       IN  IF Len(updates) = 0 THEN generateMockOfficialUpdates(source)
           ELSE Slice(updates, MaxUpdates)

\* what the cache stores is opaque: the mock result or a result of upstream
ResultTag(list, source) ==
  IF list = generateMockOfficialUpdates(source) THEN MockValue ELSE LiveValue

InitRoute ==
  /\ env \in RouteEnvs
  /\ supabase = "null"
  /\ timer = SweepTimer(env)
  /\ now = 0
  /\ cache = {}
  /\ req = [p \in Procs |-> IdleReq]
  /\ sweep = IdleSweep
  /\ started = 0
  /\ boot = Serving
  /\ http = IdleHttp
  /\ pair = NoPair
  /\ store = EmptyStore
  /\ api = [p \in Procs |-> IdleApi]
  /\ fault = NoFault

\* res.status(status).json(...) without going to the cache
Reply(h, status, body, produced) ==
  /\ http' = [h EXCEPT !.pc = "responded", !.status = status,
                       !.body = body, !.produced = produced]
  /\ UNCHANGED <<supabase, req, started, store, api, fault>>

\* const result = await getOrSetCache(cacheKey, async () => ...)
EnterCache(h) ==
  /\ started < MaxCalls
  /\ getOrSetCache_enter(RouteProc, h.route, h.q)
  /\ http' = [h EXCEPT !.pc = "awaiting"]

\* a request arrives and its handler runs up to its first await
RouteRequest(route, q) ==
  /\ boot.phase = "serving"
  /\ http.pc \in {"idle", "responded"}
  /\ LET h == [IdleHttp EXCEPT !.route = route, !.q = q]
     IN  CASE route = "geocode" ->
                IF ~geocodeSchema_ok(q.text)
                THEN Reply(h, ErrorStatus("ValidationError"), ErrorBody, "none")
                ELSE EnterCache(h)
           [] route = "reverse_geocode" ->
                IF ~ParamTruthy(q.lat) \/ ~ParamTruthy(q.lon)
                THEN Reply(h, 400, ErrorBody, "none")
                ELSE IF reverse_mock(env)
                THEN Reply(h, 200, MockValue, "mock")
                ELSE EnterCache(h)
           [] route = "twitter" ->
                IF twitter_mock(env)
                THEN Reply(h, 200, MockValue, "mock")
                ELSE EnterCache(h)
           [] route = "official_updates" -> EnterCache(h)
  /\ UNCHANGED <<env, timer, now, cache, sweep, boot, pair,
                 store, api, fault>>

\* axios.get / axios.post is sent
IssueCall(name, answer) ==
  /\ http' = [http EXCEPT !.pc = "external", !.ext = name, !.extAt = now,
                          !.extCalls = @ + 1, !.answer = answer]
  /\ UNCHANGED <<req, cache, store, api, fault>>

\* the fetcher resolves with a result whose tag is v
FetcherResolves(v, answer, extracted, list) ==
  /\ AfterResolve(RouteProc, v)
  /\ http' = [http EXCEPT !.pc = "awaiting", !.ext = "none",
                          !.answer = answer, !.extracted = extracted,
                          !.list = list, !.produced = v]

\* the fetcher rejects
FetcherRejects(answer) ==
  /\ AfterReject(RouteProc)
  /\ http' = [http EXCEPT !.pc = "awaiting", !.ext = "none",
                          !.answer = answer, !.produced = ErrorBody]

\* getOrSetCache invokes the fetcher, which runs up to its first await
AdapterStart ==
  /\ http.pc = "awaiting"
  /\ req[RouteProc].pc = "fetch"
  /\ CASE http.route = "geocode" ->
            IF performGeocoding_mock(env)
            THEN FetcherResolves(MockValue, "none", -1, << >>)
            ELSE IssueCall("gemini", "none")
       [] http.route = "reverse_geocode" -> IssueCall("mapbox_reverse", "none")
       [] http.route = "twitter" -> IssueCall("twitter", "none")
       [] http.route = "official_updates" -> IssueCall("scrape", "none")
  /\ UNCHANGED <<env, supabase, timer, now, sweep, started, boot, pair,
                 store, api, fault>>

\* the continuation of the external call in flight
AfterAnswer(answer, page) ==
  CASE http.ext = "gemini" ->
         IF answer = "ok" THEN IssueCall("mapbox", answer)
         ELSE FetcherRejects(answer)
    [] http.ext \in {"mapbox", "mapbox_reverse"} ->
         IF answer = "ok" THEN FetcherResolves(LiveValue, answer, -1, << >>)
         ELSE FetcherRejects(answer)
    [] http.ext = "twitter" ->
         IF answer = "ok" THEN FetcherResolves(LiveValue, answer, -1, << >>)
         ELSE FetcherResolves(MockValue, answer, -1, << >>)
    [] http.ext = "scrape" ->
         LET list == scrapeOfficialUpdates_result(answer, page, http.q.source)
         IN  FetcherResolves(ResultTag(list, http.q.source), answer,
               IF answer = "ok"
               THEN Len(ExtractUpdates(page, 1, http.q.source)) ELSE -1,
               list)

\* the upstream answers the external call
ExternalAnswer(answer, page) ==
  /\ http.pc = "external"
  /\ (answer = "ok" /\ http.ext = "scrape") \/ page = << >>
  /\ AfterAnswer(answer, page)
  /\ UNCHANGED <<env, supabase, timer, now, sweep, started, boot, pair,
                 store, api, fault>>

\* the timeout of the external call passes before an answer: axios rejects
ExternalTimeout ==
  /\ http.pc = "external"
  /\ ExtTimeoutMs(http.ext) > 0
  /\ now >= http.extAt + ExtTimeoutMs(http.ext)
  /\ AfterAnswer("timeout", << >>)
  /\ UNCHANGED <<env, supabase, timer, now, sweep, started, boot, pair,
                 store, api, fault>>

\* getOrSetCache has settled: res.json(result), or next(error) and the
\* error handler
RouteRespond ==
  /\ http.pc = "awaiting"
  /\ req[RouteProc].pc = "done"
  /\ LET o == req[RouteProc].outcome
     IN  http' = [http EXCEPT
           !.pc = "responded",
           !.status = IF o.kind = "value" THEN 200 ELSE ErrorStatus(o.kind),
           !.body = IF o.kind = "value" THEN o.value ELSE ErrorBody]
  /\ UNCHANGED <<env, supabase, timer, now, cache, req, sweep, started,
                 boot, pair, store, api, fault>>

NextRoute ==
  \/ \E r \in RouteRequests : RouteRequest(r.route, r.q)
  \/ Select(RouteProc)
  \/ AdapterStart
  \/ \E answer \in Answers, page \in Pages : ExternalAnswer(answer, page)
  \/ ExternalTimeout
  \/ Upsert(RouteProc)
  \/ RouteRespond
  \/ Tick

SpecRoute == InitRoute /\ [][NextRoute]_vars

(* ------------------------------ cache keys ----------------------------- *)

\* The cacheKey of two requests, computed as the handlers compute it

\* the values a query member takes: undefined, and strings with and without
\* the separator
KeyParams ==
  {NoParam, Param(<<"a">>), Param(<<"a", ":">>), Param(<<":", "a">>),
   Param(Str_undefined)}

\* the requests that reach the cacheKey line of their handler
KeyRequests ==
  { [route |-> "geocode", q |-> [NoQuery EXCEPT !.text = x]] :
      x \in {Param(<<"a">>), Param(<<":">>), Param(<<"a", ":">>)} }
  \cup
  { [route |-> "reverse_geocode", q |-> [NoQuery EXCEPT !.lat = x, !.lon = y]] :
      x \in KeyParams \ {NoParam}, y \in KeyParams \ {NoParam} }
  \cup
  { [route |-> "twitter",
     q |-> [NoQuery EXCEPT !.disaster_id = x, !.query = y]] :
      x \in KeyParams, y \in KeyParams }
  \cup
  { [route |-> "official_updates",
     q |-> [NoQuery EXCEPT !.disaster_id = x, !.source = y]] :
      x \in KeyParams, y \in KeyParams }

\* what the fetcher of the route passes to its adapter: performGeocoding(text),
\* performReverseGeocoding(lat, lon, mapboxToken),
\* fetchTwitterPosts(query || 'disaster emergency'),
\* scrapeOfficialUpdates(source)
ProducerInput(route, q) ==
  CASE route = "geocode" -> <<q.text>>
    [] route = "reverse_geocode" -> <<q.lat, q.lon>>
    [] route = "twitter" ->
         <<IF ParamTruthy(q.query) THEN q.query
           ELSE Param(Str_disaster_emergency)>>
    [] route = "official_updates" -> <<q.source>>

InitKeys ==
  /\ env \in { e \in Envs : ClientCredentialsValid(e) }
  /\ supabase = "null"
  /\ timer = SweepTimer(env)
  /\ now = 0
  /\ cache = {}
  /\ req = [p \in Procs |-> IdleReq]
  /\ sweep = IdleSweep
  /\ started = 0
  /\ boot = Serving
  /\ http = IdleHttp
  /\ pair \in [pc : {"requests"}, a : KeyRequests, b : KeyRequests,
               ka : {NoKey}, kb : {NoKey}]
  /\ store = EmptyStore
  /\ api = [p \in Procs |-> IdleApi]
  /\ fault = NoFault

\* each handler evaluates its cacheKey template literal
ComputeKeys ==
  /\ pair.pc = "requests"
  /\ pair' = [pair EXCEPT !.pc = "keys",
                          !.ka = CacheKey(pair.a.route, pair.a.q),
                          !.kb = CacheKey(pair.b.route, pair.b.q)]
  /\ UNCHANGED <<env, supabase, timer, now, cache, req, sweep, started,
                 boot, http, store, api, fault>>

NextKeys == ComputeKeys

SpecKeys == InitKeys /\ [][NextKeys]_vars

(* ---------------------- disasters and resources ------------------------ *)

\* authMiddleware: the mock users one of which is attached to each request
mockUsers ==
  { [id |-> "u1", role |-> "admin"], [id |-> "u2", role |-> "contributor"] }

\* the entry point calls initializeSupabase() once and hands the client to
\* every request as req.supabase
reqSupabase(e) == initializeSupabase_client("null", e)

\* createMockSupabaseClient: the members of the object that a chain of
\* calls on the mock client gives
MockMembers(chain) ==
  CASE chain = <<"from">> -> {"select"}
    [] chain = <<"from", "select">> ->
         {"eq", "insert", "update", "delete", "contains", "filter", "not",
          "lt", "upsert"}
    [] chain = <<"from", "select", "eq">> -> {"single", "order"}
    [] chain = <<"from", "select", "eq", "order">> -> {"range"}
    [] chain = <<"from", "select", "insert">> -> {"select"}
    [] chain = <<"from", "select", "insert", "select">> -> {"single"}
    [] chain = <<"from", "select", "update">> -> {"eq"}
    [] chain = <<"from", "select", "update", "eq">> -> {"select"}
    [] chain = <<"from", "select", "update", "eq", "select">> -> {"single"}
    [] chain = <<"from", "select", "delete">> -> {"eq"}
    [] chain = <<"from", "select", "contains">> -> {"order"}
    [] chain = <<"from", "select", "contains", "order">> -> {"range"}
    [] chain = <<"from", "select", "filter">> -> {"order"}
    [] chain = <<"from", "select", "not">> -> {"select"}
    [] OTHER -> {}

\* calling a member that the object does not have throws a TypeError
MockSupports(chain) ==
  \A i \in 2..Len(chain) : chain[i] \in MockMembers(SubSeq(chain, 1, i - 1))

\* the routes of a router in the order of their registration
Router(table) ==
  IF table = "disasters"
  THEN << <<"POST", "/">>, <<"GET", "/">>, <<"GET", "/:id">>,
          <<"PUT", "/:id">>, <<"DELETE", "/:id">> >>
  ELSE << <<"POST", "/">>, <<"GET", "/">>, <<"GET", "/:id">>,
          <<"PUT", "/:id">>, <<"DELETE", "/:id">>, <<"GET", "/nearby">>,
          <<"GET", "/types">>, <<"POST", "/bulk">> >>

\* a route pattern against the path below the mount point, which is written
\* without its slash: empty, or one segment.  "/:id" takes every segment
PatternMatches(pattern, path) ==
  CASE pattern = "/:id" -> path # ""
    [] pattern = "/" -> path = ""
    [] pattern = "/nearby" -> path = "nearby"
    [] pattern = "/types" -> path = "types"
    [] pattern = "/bulk" -> path = "bulk"

\* express dispatches to the first registered route that matches; without a
\* match the request falls through to the 404 handler
Match(router, method, path) ==
  LET hits == { i \in 1..Len(router) :
                  /\ router[i][1] = method
                  /\ PatternMatches(router[i][2], path) }
  IN IF hits = {} THEN <<"", "">>
     ELSE router[CHOOSE i \in hits : \A j \in hits : i <= j]

\* z.number().min(lo).max(hi).optional()
NumOk(x, lo, hi) == ~x.given \/ (lo <= x.n /\ x.n <= hi)

\* z.string().min(1).max(n)
StringOk(x, n) == x.given /\ Len(x.s) >= 1 /\ Len(x.s) <= n

\* disasterSchema (location_name, description and tags are valid throughout)
disasterSchema_ok(body) ==
  /\ StringOk(body.title, 200)
  /\ NumOk(body.lat, -90, 90)
  /\ NumOk(body.lon, -180, 180)

\* resourceSchema (location_name, type and disaster_id are valid throughout)
resourceSchema_ok(body) ==
  /\ StringOk(body.name, 200)
  /\ NumOk(body.lat, -90, 90)
  /\ NumOk(body.lon, -180, 180)

\* the validate(schema) middleware of a route; the query schemas of the two
\* list routes accept a request without query parameters
validate_ok(table, handler, body) ==
  IF handler \in {<<"POST", "/">>, <<"PUT", "/:id">>}
  THEN IF table = "disasters" THEN disasterSchema_ok(body)
       ELSE resourceSchema_ok(body)
  ELSE TRUE

\* JavaScript truthiness of a number member: undefined and 0 are falsy
NumTruthy(x) == x.given /\ x.n # 0

\* `POINT(${lon} ${lat})`
Point(lon, lat) == [point |-> TRUE, lon |-> lon, lat |-> lat]

\* let location = null; if (lat && lon) { location = `POINT(${lon} ${lat})` }
Location(lat, lon) ==
  IF NumTruthy(lat) /\ NumTruthy(lon) THEN Point(lon.n, lat.n)
  ELSE NullLocation

\* io.emit('disaster_updated' or 'resources_updated', {type, ...})
Event(table, type) ==
  [name |-> IF table = "disasters" THEN "disaster_updated"
            ELSE "resources_updated",
   type |-> type]

\* an entry of audit_trail
AuditEntry(action, user) == [action |-> action, user_id |-> user.id]

\* the row that POST /disasters inserts, as the datastore stores it; updates
\* counts the update statements the datastore applied to the row
DisasterRow(id, user, location) ==
  [id |-> id, owner_id |-> user.id, location |-> location,
   audit_trail |-> <<AuditEntry("created", user)>>, updates |-> 0]

\* the row that POST /resources inserts
ResourceRow(id, name, location) ==
  [id |-> id, name |-> name, location |-> location]

\* data of a list answer
Listing(rows) == [id |-> "", rows |-> rows]

\* PUT and DELETE /disasters/:id: the negation of
\* existing.owner_id !== user.id && user.role !== 'admin'
Permitted_byRole(existing, user) ==
  existing.owner_id = user.id \/ user.role \in {"admin", "contributor"}

Permitted(existing, user) ==
  existing.owner_id = user.id \/ user.role = "admin"

\* res.status(status).json(data) or .send()
Done(r, status, data) ==
  [r EXCEPT !.pc = "done", !.status = status, !.data = data]

\* catch (error) { next(error) }: errorHandler answers
Throw(r, name) == Done(r, ErrorStatus(name), NoRecord)

\* a handler reaches a chain of client calls: the mock client throws where
\* a member is missing, otherwise the call is sent and awaited
Await(r, e, chain, pc) ==
  IF reqSupabase(e) = "mock" /\ ~MockSupports(chain)
  THEN Throw(r, "TypeError")
  ELSE [r EXCEPT !.pc = pc]

\* the elements handed to the insert without the test of their fields
bulk_enter_unchecked(r, e) ==
  IF ~r.body.isArray \/ Len(r.body.resources) = 0
  THEN Done(r, 400, NoRecord)
  ELSE Await(r, e, <<"from", "insert", "select">>, "bulk")

\* POST /resources/bulk up to its insert: the array test, then the map over
\* the elements, which throws at the first element that lacks a field
bulk_enter(r, e) ==
  IF ~r.body.isArray \/ Len(r.body.resources) = 0
  THEN Done(r, 400, NoRecord)
  ELSE IF \E i \in 1..Len(r.body.resources) :
            \/ ~ParamTruthy(r.body.resources[i].name)
            \/ ~ParamTruthy(r.body.resources[i].type)
       THEN Throw(r, "Error")
       ELSE Await(r, e, <<"from", "insert", "select">>, "bulk")

\* GET /resources/nearby: both coordinates are required, then
\* findNearbyResources answers (an empty list in mock mode)
nearby_enter(r, e) ==
  IF ~ParamTruthy(r.query.lat) \/ ~ParamTruthy(r.query.lon)
  THEN Done(r, 400, NoRecord)
  ELSE IF findNearbyResources_mockMode(e) THEN Done(r, 200, Listing({}))
  ELSE [r EXCEPT !.pc = "list"]

\* GET /resources/types: select('type').not('type', 'is', null)
types_enter(r, e) == Await(r, e, <<"from", "select", "not">>, "list")

\* a handler from its first line to its first await; a request that no
\* route matches falls through to the 404 handler of the entry point
Enter(r, e) ==
  CASE r.handler = <<"POST", "/">> ->
         Await([r EXCEPT !.location = Location(r.body.lat, r.body.lon)],
               e, <<"from", "insert", "select", "single">>, "insert")
    [] r.handler = <<"GET", "/">> -> Await(r, e, IF r.table = "disasters"
               THEN <<"from", "select", "order", "range">>
               ELSE <<"from", "select", "order">>, "list")
    [] r.handler \in {<<"GET", "/:id">>, <<"PUT", "/:id">>,
                      <<"DELETE", "/:id">>} ->
         Await(r, e, <<"from", "select", "eq", "single">>, "select")
    [] r.handler = <<"POST", "/bulk">> -> bulk_enter(r, e)
    [] r.handler = <<"GET", "/nearby">> -> nearby_enter(r, e)
    [] r.handler = <<"GET", "/types">> -> types_enter(r, e)
    [] OTHER -> Done(r, 404, NoRecord)

\* the middleware chain of the entry point up to the handler's first await:
\* authMiddleware attaches a user, the router picks the route, validate
\* hands a ValidationError to errorHandler, else the handler starts
ApiRequest(p, q, user) ==
  /\ boot.phase = "serving"
  /\ api[p].pc = "idle"
  /\ LET handler == Match(Router(q.table), q.method, q.path)
         r == [api[p] EXCEPT !.table = q.table, !.method = q.method,
                             !.path = q.path, !.query = q.query,
                             !.body = q.body,
                             !.user = user, !.handler = handler]
     IN api' = [api EXCEPT ![p] =
                  IF ~validate_ok(q.table, handler, q.body)
                  THEN Throw(r, "ValidationError")
                  ELSE Enter(r, env)]
  /\ UNCHANGED <<env, supabase, timer, now, cache, req, sweep, started,
                 boot, http, pair, store, fault>>

\* what .select('*').eq('id', id).single() answers: the row, or the error
\* code PGRST116 when there is no row; the mock client answers
\* {data: null, error: null}
Single(client, rows, id, failed) ==
  IF client = "mock" THEN [data |-> NoRecord, code |-> ""]
  ELSE IF failed THEN [data |-> NoRecord, code |-> "other"]
  ELSE IF \A x \in rows : x.id # id
  THEN [data |-> NoRecord, code |-> "PGRST116"]
  ELSE [data |-> CHOOSE x \in rows : x.id = id, code |-> ""]

\* PUT /disasters/:id after the select answered a row: the permission test,
\* the location, the audit trail with the new entry, then the update
putDisaster_prepare(r, e) ==
  IF r.existing = NoRecord THEN Throw(r, "TypeError")
  ELSE IF ~Permitted(r.existing, r.user) THEN Done(r, 403, NoRecord)
  ELSE Await([r EXCEPT !.location = Location(r.body.lat, r.body.lon),
                       !.trail = Append(r.existing.audit_trail,
                                        AuditEntry("updated", r.user))],
             e, <<"from", "update", "eq", "select", "single">>, "update")

\* DELETE /disasters/:id after the select answered a row
deleteDisaster_prepare(r, e) ==
  IF r.existing = NoRecord THEN Throw(r, "TypeError")
  ELSE IF ~Permitted(r.existing, r.user) THEN Done(r, 403, NoRecord)
  ELSE Await(r, e, <<"from", "delete", "eq">>, "delete")

\* the continuation of the select by id of GET, PUT and DELETE /:id
AfterExisting(r, e, rows, failed) ==
  LET client == reqSupabase(e)
      code == Single(client, rows, r.path, failed).code
      data == Single(client, rows, r.path, failed).data
      r1 == [r EXCEPT !.existing = data, !.found = data # NoRecord,
                      !.dbError = code # ""]
  IN IF code = "PGRST116" THEN Done(r1, 404, NoRecord)
     ELSE IF code # "" THEN Throw(r1, "Error")
     ELSE IF r.method = "GET" THEN Done(r1, 200, data)
     ELSE IF r.method = "PUT"
     THEN IF r.table = "disasters" THEN putDisaster_prepare(r1, e)
          ELSE Await([r1 EXCEPT !.location =
                                  Location(r.body.lat, r.body.lon)],
                     e, <<"from", "update", "eq", "select", "single">>,
                     "update")
     ELSE IF r.table = "disasters" THEN deleteDisaster_prepare(r1, e)
          ELSE Await(r1, e, <<"from", "delete", "eq">>, "delete")

\* the select by id answers
ExistingAnswer(p) ==
  /\ api[p].pc = "select"
  /\ \E failed \in BOOLEAN :
       /\ failed => reqSupabase(env) = "real"
       /\ api' = [api EXCEPT ![p] =
                    AfterExisting(api[p], env, store[api[p].table], failed)]
  /\ UNCHANGED <<env, supabase, timer, now, cache, req, sweep, started,
                 boot, http, pair, store, fault>>

\* the event of a successful write, then the response
Emit(r, type, status, data, writes) ==
  Done([r EXCEPT !.emitted = Append(@, Event(r.table, type)),
                 !.writes = writes],
       status, data)

\* the event sent before the error of the answer is looked at
DbError_emitFirst(r) ==
  Throw([r EXCEPT !.dbError = TRUE,
                  !.emitted = Append(@, Event(r.table, "updated"))], "Error")

\* if (error) throw new Error(...)
DbError(r) == Throw([r EXCEPT !.dbError = TRUE], "Error")

\* the rows of the validated elements of a bulk insert, numbered from n + 1
BulkRows(elements, n) ==
  { ResourceRow(ToString(n + i), elements[i].name.s,
                Location(elements[i].lat, elements[i].lon)) :
      i \in 1..Len(elements) }

\* the row x after the update of a request
UpdatedRow(r, x) ==
  IF r.table = "disasters"
  THEN [x EXCEPT !.location = r.location, !.audit_trail = r.trail,
                 !.updates = @ + 1]
  ELSE [x EXCEPT !.name = r.body.name.s, !.location = r.location]

\* the table after the datastore executed the statement of a request
TableAfter(r, rows, n, failed) ==
  IF failed THEN rows
  ELSE CASE r.pc = "insert" ->
              rows \cup { IF r.table = "disasters"
                          THEN DisasterRow(ToString(n + 1), r.user, r.location)
                          ELSE ResourceRow(ToString(n + 1), r.body.name.s,
                                           r.location) }
         [] r.pc = "update" ->
              { IF x.id # r.path THEN x ELSE UpdatedRow(r, x) :
                  x \in rows }
         [] r.pc = "delete" -> { x \in rows : x.id # r.path }
         [] r.pc = "bulk" -> rows \cup BulkRows(r.body.resources, n)
         [] OTHER -> rows

\* the continuation of the awaited insert, update, delete or list of a
\* handler with the real client: rows is the table before the statement
AfterStatement(r, rows, n, failed) ==
  IF failed THEN DbError(r)
  ELSE CASE r.pc = "insert" ->
              Emit(r, "created", 201,
                   IF r.table = "disasters"
                   THEN DisasterRow(ToString(n + 1), r.user, r.location)
                   ELSE ResourceRow(ToString(n + 1), r.body.name.s, r.location),
                   1)
         [] r.pc = "update" ->
              IF \A x \in rows : x.id # r.path THEN DbError(r)
              ELSE Emit(r, "updated", 200,
                        UpdatedRow(r, Single("real", rows, r.path,
                                             FALSE).data),
                        1)
         [] r.pc = "delete" ->
              Emit(r, "deleted", 204, NoRecord,
                   Cardinality({ x \in rows : x.id = r.path }))
         [] r.pc = "bulk" ->
              Done([r EXCEPT !.emitted =
                               [i \in 1..Len(r.body.resources) |->
                                  Event("resources", "created")],
                             !.writes = Len(r.body.resources)],
                   201, Listing(BulkRows(r.body.resources, n)))
         [] OTHER -> Done(r, 200, Listing(rows))

\* the same continuation with the answers of the mock client
AfterMockStatement(r) ==
  CASE r.pc = "insert" -> Emit(r, "created", 201, [id |-> "mock-id"], 0)
    [] r.pc = "update" -> Emit(r, "updated", 200, [id |-> "mock-id"], 0)
    [] r.pc = "delete" -> Emit(r, "deleted", 204, NoRecord, 0)
    [] OTHER -> Throw(r, "TypeError")

\* rows the statement of a request adds to its table
Inserted(r, failed) ==
  IF failed THEN 0
  ELSE IF r.pc = "insert" THEN 1
  ELSE IF r.pc = "bulk" THEN Len(r.body.resources)
  ELSE 0

\* the insert, update, delete or list of a handler answers
StatementAnswer(p) ==
  /\ api[p].pc \in {"insert", "update", "delete", "bulk", "list"}
  /\ LET r == api[p]
         t == r.table
     IN IF reqSupabase(env) = "mock"
        THEN /\ api' = [api EXCEPT ![p] = AfterMockStatement(r)]
             /\ store' = store
        ELSE \E failed \in BOOLEAN :
               /\ api' = [api EXCEPT ![p] =
                            AfterStatement(r, store[t], store.seq[t], failed)]
               /\ store' = [store EXCEPT
                              ![t] = TableAfter(r, store[t], store.seq[t],
                                                failed),
                              !.seq[t] = @ + Inserted(r, failed)]
  /\ UNCHANGED <<env, supabase, timer, now, cache, req, sweep, started,
                 boot, http, pair, fault>>

\* the settings of the CRUD behaviours: the datastore configured, or not
CrudEnvs ==
  { e \in Envs :
      \/ e.SUPABASE_URL = RealUrl /\ e.SUPABASE_SERVICE_ROLE_KEY = RealKey
      \/ e.SUPABASE_URL = Absent /\ e.SUPABASE_SERVICE_ROLE_KEY = Absent }

\* the tables when the server starts: empty, or with a disaster that one of
\* the users created earlier, and with a resource
InitialStores ==
  { [disasters |-> d, resources |-> s,
     seq |-> [disasters |-> Cardinality(d), resources |-> Cardinality(s)]] :
      d \in {{}} \cup { {DisasterRow(ToString(1), u, NullLocation)} :
                          u \in mockUsers },
      s \in {{}, {ResourceRow(ToString(1), <<"n">>, NullLocation)}} }

\* the bodies of the requests: a title (a name) with no coordinates, with
\* both, with a zero latitude; and the empty body
DisasterBodies ==
  { [NoBody EXCEPT !.title = Param(<<"t">>), !.lat = c[1], !.lon = c[2]] :
      c \in { <<NoNum, NoNum>>, <<Num(40), Num(-73)>>, <<Num(0), Num(-73)>> } }
  \cup { NoBody }

\* likewise with a zero longitude, one coordinate, a latitude out of range
ResourceBodies ==
  { [NoBody EXCEPT !.name = Param(<<"n">>), !.lat = c[1], !.lon = c[2]] :
      c \in { <<NoNum, NoNum>>, <<Num(40), Num(-73)>>, <<Num(0), Num(-73)>>,
              <<Num(40), Num(0)>>, <<Num(40), NoNum>>,
              <<Num(91), Num(-73)>> } }
  \cup { NoBody }

\* the bodies of POST /resources/bulk: resources missing, empty, complete
\* elements, an element without a name, an element with an empty type
BulkBodies ==
  LET good == [name |-> Param(<<"n">>), type |-> Param(<<"s">>),
               lat |-> Num(40), lon |-> Num(-73)]
  IN { NoBody, [NoBody EXCEPT !.isArray = TRUE] }
     \cup { [NoBody EXCEPT !.isArray = TRUE, !.resources = a] :
              a \in { <<good>>, <<good, good>>,
                      <<good, [good EXCEPT !.name = NoParam]>>,
                      <<[good EXCEPT !.type = Param(<< >>)], good>> } }

\* the requests to /disasters/:id that change a record
DisasterWrites ==
  [table : {"disasters"}, method : {"PUT"}, path : {"1", "2"},
   query : {NoQuery}, body : { x \in DisasterBodies : x.lat = x.lon }]
  \cup [table : {"disasters"}, method : {"DELETE"}, path : {"1", "2"},
        query : {NoQuery}, body : {NoBody}]

DisasterRequests ==
  [table : {"disasters"}, method : {"POST"}, path : {""},
   query : {NoQuery}, body : DisasterBodies]
  \cup [table : {"disasters"}, method : {"GET"}, path : {"", "1", "2"},
        query : {NoQuery}, body : {NoBody}]
  \cup [table : {"disasters"}, method : {"PUT"}, path : {"1"},
        query : {NoQuery}, body : DisasterBodies]
  \cup DisasterWrites

\* the documented nearby request has ?lat=40&lon=-73
ResourceRequests ==
  [table : {"resources"}, method : {"POST"}, path : {""},
   query : {NoQuery}, body : ResourceBodies]
  \cup [table : {"resources"}, method : {"GET"},
        path : {"", "1", "2", "types"}, query : {NoQuery}, body : {NoBody}]
  \cup [table : {"resources"}, method : {"GET"}, path : {"nearby"},
        query : {NoQuery,
                 [NoQuery EXCEPT !.lat = Param(<<"4", "0">>),
                                 !.lon = Param(<<"-", "7", "3">>)]},
        body : {NoBody}]
  \cup [table : {"resources"}, method : {"PUT"}, path : {"1"},
        query : {NoQuery}, body : ResourceBodies]
  \cup [table : {"resources"}, method : {"DELETE"}, path : {"1", "2"},
        query : {NoQuery}, body : {NoBody}]
  \cup [table : {"resources"}, method : {"POST"}, path : {"bulk"},
        query : {NoQuery}, body : BulkBodies]

\* the requests of a connection: the first sends every request, the second
\* the writes to a disaster
ApiRequests(p) ==
  IF p = RouteProc THEN DisasterRequests \cup ResourceRequests
  ELSE DisasterWrites

InitCrud ==
  /\ env \in CrudEnvs
  /\ supabase = "null"
  /\ timer = SweepTimer(env)
  /\ now = 0
  /\ cache = {}
  /\ req = [p \in Procs |-> IdleReq]
  /\ sweep = IdleSweep
  /\ started = 0
  /\ boot = Serving
  /\ http = IdleHttp
  /\ pair = NoPair
  /\ store \in IF reqSupabase(env) = "mock" THEN {EmptyStore}
               ELSE InitialStores
  /\ api = [p \in Procs |-> IdleApi]
  /\ fault = NoFault

NextCrud ==
  \/ \E p \in Procs : \E q \in ApiRequests(p) : \E user \in mockUsers :
       ApiRequest(p, q, user)
  \/ \E p \in Procs : ExistingAnswer(p)
  \/ \E p \in Procs : StatementAnswer(p)

SpecCrud == InitCrud /\ [][NextCrud]_vars

(* ---------------------------- errorHandler ----------------------------- *)

\* the message and the stack kept out of the body in production only
errorHandler_nonProduction(err, nodeEnv) ==
  LET isDevelopment == nodeEnv # "production"
  IN IF err.name = "ValidationError"
     THEN [status |-> 400, error |-> "Validation failed",
           details |-> err.details, stack |-> NoValue]
     ELSE IF err.name = "UnauthorizedError"
     THEN [status |-> 401, error |-> "Authentication required",
           details |-> NoValue, stack |-> NoValue]
     ELSE IF err.code = "PGRST116"
     THEN [status |-> 404, error |-> "Resource not found",
           details |-> NoValue, stack |-> NoValue]
     ELSE [status |-> 500,
           error |-> IF isDevelopment THEN err.message
                     ELSE "Internal server error",
           details |-> NoValue,
           stack |-> IF isDevelopment THEN err.stack ELSE NoValue]

\* errorHandler: the status and the JSON body of the response
errorHandler(err, nodeEnv) ==
  LET isDevelopment == nodeEnv = "development"
      errorResponse ==
        [status |-> 500,
         error |-> IF isDevelopment THEN err.message
                   ELSE "Internal server error",
         details |-> NoValue,
         stack |-> IF isDevelopment THEN err.stack ELSE NoValue]
  IN IF err.name = "ValidationError"
     THEN [status |-> 400, error |-> "Validation failed",
           details |-> err.details, stack |-> NoValue]
     ELSE IF err.name = "UnauthorizedError"
     THEN [status |-> 401, error |-> "Authentication required",
           details |-> NoValue, stack |-> NoValue]
     ELSE IF err.code = "PGRST116"
     THEN [status |-> 404, error |-> "Resource not found",
           details |-> NoValue, stack |-> NoValue]
     ELSE errorResponse

\* the errors handed to next() by their name, code and message, and
\* process.env.NODE_ENV; a member that is undefined is NoValue
InitError ==
  /\ env \in { e \in Envs : ClientCredentialsValid(e) }
  /\ supabase = "null"
  /\ timer = SweepTimer(env)
  /\ now = 0
  /\ cache = {}
  /\ req = [p \in Procs |-> IdleReq]
  /\ sweep = IdleSweep
  /\ started = 0
  /\ boot = Serving
  /\ http = IdleHttp
  /\ pair = NoPair
  /\ store = EmptyStore
  /\ api = [p \in Procs |-> IdleApi]
  /\ fault \in
       [pc : {"thrown"},
        err : [name : {"ValidationError", "UnauthorizedError", "Error",
                       "TypeError"},
               code : {NoValue, "PGRST116", "23505"},
               message : {"Validation failed", "Failed to create disaster"},
               stack : {"stack"}, details : {"details"}],
        NODE_ENV : {Absent, "development", "production", "test"},
        res : {[status |-> 0, error |-> NoValue, details |-> NoValue,
                stack |-> NoValue]}]

\* express hands the error to errorHandler, which answers
HandleError ==
  /\ fault.pc = "thrown"
  /\ fault' = [fault EXCEPT !.pc = "answered",
                            !.res = errorHandler(fault.err, fault.NODE_ENV)]
  /\ UNCHANGED <<env, supabase, timer, now, cache, req, sweep, started,
                 boot, http, pair, store, api>>

SpecError == InitError /\ [][HandleError]_vars

TypeOK ==
  /\ env \in Envs \cup RouteEnvs
  /\ supabase \in {"null", "client"}
  /\ now \in Instants
  /\ started \in 0..MaxCalls
  /\ \A p \in Procs : req[p].pc \in {"idle", "select", "fetch", "upsert", "done"}
  /\ sweep.pc \in {"idle", "delete"}
  /\ \A p \in Procs :
       api[p].pc \in {"idle", "select", "insert", "update", "delete", "bulk",
                      "list", "done"}

(* ------------------------------- claims -------------------------------- *)

\* the rows of the table under a key
RowsOf(rows, key) == { r \in rows : r.key = key }

\* what the fetcher of a settled call ended with, as getOrSetCache passes it on
ProducerOutcome(r) ==
  IF r.rejected THEN Thrown("ProducerError") ELSE Returned(r.fresh)

\* C1: with the real client and a select that succeeds, a call that reads an
\* entry less than one hour after the entry was written does not invoke the
\* fetcher and returns the stored value; a call that reads it one hour or
\* more after the write invokes the fetcher (once); no call invokes it twice.
C1_TtlCorrectness ==
  [][\A p \in Procs :
       /\ req'[p].calls <= 1
       /\ (req[p].pc = "select" /\ req'[p].pc # "select"
           /\ req[p].client = "real" /\ ~req'[p].readErr)
          => \A r \in RowsOf(cache, req[p].key) :
               /\ now < r.written_at + HourMs
                  => /\ req'[p].pc = "done"
                     /\ req'[p].calls = 0
                     /\ req'[p].outcome = Returned(r.value)
               /\ now >= r.written_at + HourMs
                  => /\ req'[p].pc = "fetch"
                     /\ req'[p].calls = 1]_vars

\* a second call read the entry some time after it was written, inside its
\* hour, and returned the stored value without invoking the fetcher
C1_Witness ==
  \E p \in Procs :
    /\ req[p].pc = "done" /\ req[p].hit /\ req[p].calls = 0
    /\ req[p].client = "real"
    /\ \E r \in RowsOf(cache, req[p].key) :
         /\ r.written_at < now
         /\ now < r.written_at + HourMs
         /\ req[p].outcome = Returned(r.value)

\* C2: a call whose key has no entry (no row came back, or the cache was not
\* consulted at all) and whose fetcher resolved has invoked the fetcher
\* exactly once and returns exactly the fetcher's value.
C2_MissComputes ==
  \A p \in Procs :
    (req[p].pc = "done" /\ ~req[p].found /\ ~req[p].readErr
     /\ ~req[p].rejected)
    => /\ req[p].calls = 1
       /\ req[p].outcome = Returned(req[p].fresh)

\* C3: whenever initializeSupabase reports the datastore unavailable (it hands
\* out the mock client), the call sends no select and no upsert, invokes the
\* fetcher exactly once, settles with the fetcher's outcome and leaves the
\* cache as it was.
C3_DegradedBypass ==
  [][\A p \in Procs :
       req'[p].client = "mock"
       => /\ req'[p].reads = 0
          /\ req'[p].writes = 0
          /\ req'[p].calls = 1
          /\ req'[p].pc = "done" => req'[p].outcome = ProducerOutcome(req'[p])
          /\ req'[p] # req[p] => cache' = cache]_vars

\* C4: a call whose fetcher resolved and whose write-back failed returns the
\* fetcher's value and raises nothing.
C4_PutFailureReturns ==
  \A p \in Procs :
    (req[p].pc = "done" /\ req[p].putErr)
    => req[p].outcome = Returned(req[p].fresh)

\* C5: when the fetcher rejects, the call rejects with the fetcher's error,
\* the step leaves the cache as it was and the call has sent no upsert.
C5_ProducerFailureNoTrace ==
  [][\A p \in Procs :
       req'[p].rejected
       => /\ req'[p].pc = "done"
          /\ req'[p].outcome = Thrown("ProducerError")
          /\ req'[p].writes = 0
          /\ ~req[p].rejected => cache' = cache]_vars

\* the fetcher of a call on the cache path rejected while the cache held an
\* entry written by another call
C5_Witness ==
  \E p \in Procs :
    /\ req[p].pc = "done" /\ req[p].rejected /\ ~req[p].bypass
    /\ req[p].client = "real"
    /\ req[p].outcome = Thrown("ProducerError")
    /\ RowsOf(cache, req[p].key) = {}
    /\ cache # {}

C7_CacheTableInvariant ==
  /\ \A r1, r2 \in cache : r1.key = r2.key => r1 = r2
  /\ \A r \in cache : r.expires_at = r.written_at + HourMs
  /\ \A p \in Procs : req[p].pc = "upsert"
       => req[p].pending.expires_at = req[p].pending.written_at + HourMs
  /\ \A route \in CachedRoutes : ttlHoursParam(ttlHoursArgs(route)) = 1

\* a sweep has removed a row and two calls have written rows, one of them
\* after the instant of the first write
C7_Witness ==
  /\ sweep.status = "ok"
  /\ sweep.removed # {}
  /\ \E r \in cache : r.written_at > 0
  /\ \A p \in Procs : req[p].pc = "done" /\ req[p].writes = 1 /\ ~req[p].putErr

\* C8: the step that takes the hit branch leaves the whole table as it was
\* and a call that hit has sent no upsert; every row that appears in the
\* table is the row a call sends after a miss (it invoked its fetcher), and
\* that step leaves the rows of all other keys as they were.
C8_HitsReadOnly ==
  [][/\ \A p \in Procs :
          req'[p].hit
          => /\ req'[p].writes = 0
             /\ ~req[p].hit => cache' = cache
     /\ \A r \in cache' \ cache :
          \E p \in Procs :
            /\ req[p].pc = "upsert" /\ req'[p].pc = "done"
            /\ ~req[p].hit /\ req[p].calls = 1
            /\ r = req[p].pending
            /\ \A o \in cache : o.key # r.key => o \in cache']_vars

\* a call hit an entry some time after the write; the entry is in the table
\* with the expiry of its write, and nothing else is
C8_Witness ==
  \E p \in Procs :
    /\ req[p].pc = "done" /\ req[p].hit /\ req[p].writes = 0
    /\ \E r \in cache :
         /\ cache = {r}
         /\ r.key = req[p].key
         /\ r.written_at < now
         /\ r.expires_at = r.written_at + HourMs
         /\ req[p].outcome = Returned(r.value)

C10_SweepPutRace ==
  [][/\ \A r \in cache \ cache' :
          \/ /\ sweep.pc = "delete" /\ sweep'.pc = "idle"
             /\ r.expires_at < sweep.ts
          \/ \E p \in Procs :
               /\ req[p].pc = "upsert" /\ req'[p].pc = "done"
               /\ req[p].key = r.key
               /\ req[p].pending \in cache'
     /\ (sweep.pc = "delete" /\ sweep'.pc = "idle")
        => \A r \in cache :
             (r.expires_at > sweep.ts \/ r.written_at + HourMs > sweep.ts)
             => r \in cache']_vars

\* a sweep has completed and removed a row; a row written before the sweep's
\* timestamp and not yet expired at it is still there, and a write-back sent
\* before the sweep's timestamp is still in flight
C10_Witness ==
  /\ sweep.status = "ok"
  /\ \E r \in cache : r.written_at <= sweep.ts /\ r.expires_at > sweep.ts
  /\ \E p \in Procs :
       /\ req[p].pc = "upsert"
       /\ req[p].pending.written_at <= sweep.ts

\* C11: getOrSetCache has no single-flight: a call whose select finds no
\* unexpired entry invokes its producer even while other calls of the key
\* are in flight; every write-back that succeeds leaves exactly one entry of
\* the key, the one that write sent (so the last write wins), leaves the
\* other keys alone, and returns to its caller the value its own producer
\* resolved with
C11_LastWriteWins ==
  [][\A p \in Procs :
       /\ ( /\ req[p].pc = "select"
            /\ req'[p].pc # "select"
            /\ ~IsHit(SelectSingle(cache, req[p].key), now) )
          => /\ req'[p].pc = "fetch"
             /\ req'[p].calls = req[p].calls + 1
       /\ ( /\ req[p].pc = "upsert"
            /\ req'[p].pc = "done"
            /\ ~req'[p].putErr )
          => /\ RowsOf(cache', req[p].key) = {req[p].pending}
             /\ req[p].pending.value = req[p].fresh
             /\ \A r \in cache \cup cache' :
                  r.key # req[p].key => (r \in cache <=> r \in cache')
             /\ req'[p].outcome = Returned(req[p].fresh)
             /\ req'[p].calls = 1]_vars

\* two calls of one key both read before either wrote, both invoked their
\* producers, which resolved with different values, both wrote, and the
\* table holds one entry of the key with one of the two values
C11_Witness ==
  /\ req["r1"].pc = "done" /\ req["r2"].pc = "done"
  /\ req["r1"].key = req["r2"].key
  /\ \A p \in Procs :
       /\ req[p].client = "real" /\ ~req[p].found /\ ~req[p].readErr
       /\ req[p].calls = 1 /\ req[p].writes = 1 /\ ~req[p].putErr
       /\ req[p].outcome = Returned(req[p].fresh)
  /\ req["r1"].fresh # req["r2"].fresh
  /\ \E r \in cache :
       /\ RowsOf(cache, req["r1"].key) = {r}
       /\ r.value \in {req["r1"].fresh, req["r2"].fresh}

\* C12: whenever a getOrSetCache call uses the cache (it does not bypass it),
\* cleanExpiredCache is scheduled on the one-hour interval, whether the
\* settings are in the process environment or come from the .env file
C12_SweepScheduledWhenCacheUsed ==
  \A p \in Procs :
    (req[p].pc # "idle" /\ ~req[p].bypass /\ req[p].client = "real")
      => (timer.scheduled /\ timer.due = SweepIntervalMs)

\* C13: the datastore is treated as unavailable exactly when
\* initializeSupabase hands out the mock client: a getOrSetCache call
\* bypasses the cache iff its client is the mock one, a cleanExpiredCache run
\* is skipped iff the client is the mock one, and findNearbyResources is in
\* mock mode iff the client is the mock one
C13_AvailabilityConsistent ==
  /\ \A p \in Procs :
       req[p].pc # "idle" => (req[p].bypass <=> req[p].client = "mock")
  /\ sweep.status # "none"
       => (sweep.status = "skipped" <=> ~ClientCredentialsValid(env))
  /\ findNearbyResources_mockMode(env)
       <=> initializeSupabase_client("null", env) = "mock"

\* a setting that is absent or still has the value of the settings template
SettingUnset(v, placeholder) == v = Absent \/ v = placeholder

\* a credential the adapter of the route requires is absent or a placeholder
AdapterUnavailable(route, e) ==
  CASE route = "geocode" ->
         \/ SettingUnset(e.GEMINI_API_KEY, GeminiPlaceholder)
         \/ SettingUnset(e.MAPBOX_TOKEN, MapboxPlaceholder)
    [] route = "reverse_geocode" ->
         SettingUnset(e.MAPBOX_TOKEN, MapboxPlaceholder)
    [] route = "twitter" ->
         SettingUnset(e.TWITTER_BEARER, BearerPlaceholder)
    [] OTHER -> FALSE

\* C14: while a credential the adapter of the requested route requires is
\* absent or a placeholder, the request sends no external call and the
\* adapter gives nothing but its mock result
C14_UnavailableAdapterIsMock ==
  (http.pc # "idle" /\ AdapterUnavailable(http.route, env))
    => /\ http.extCalls = 0
       /\ http.ext = "none"
       /\ http.produced \in {"none", MockValue}

\* C15: a request to a configured adapter whose external call failed with a
\* transport error or a body that cannot be parsed gets the adapter's mock result and is answered
\* with status 200, never with an error
C15_UpstreamFailureFallsBack ==
  (http.answer \in {"error", "malformed"}
     /\ ~AdapterUnavailable(http.route, env))
    => /\ http.produced = MockValue
       /\ http.pc = "responded"
            => (http.status = 200 /\ http.body = MockValue)

\* C16: with the real client, (1) a fetcher that ends with the adapter's mock
\* result sends the write-back of that result under the key with expiry
\* now + 1 hour, (2) the write-back that succeeds leaves exactly that entry
\* under the key, (3) a select that answers while an entry holding the mock
\* result is less than one hour old returns the mock result without invoking
\* the fetcher or sending an external call, and (4) the request is answered
\* with status 200 and the stored result
C16_MockResultsCached ==
  [][/\ ( /\ req[RouteProc].pc = "fetch"
          /\ req'[RouteProc].pc # "fetch"
          /\ http'.produced = MockValue
          /\ req[RouteProc].client = "real"
          /\ ~req[RouteProc].bypass )
        => /\ req'[RouteProc].pc = "upsert"
           /\ req'[RouteProc].pending =
                [key |-> req[RouteProc].key, value |-> MockValue,
                 expires_at |-> now + HourMs, written_at |-> now]
     /\ ( /\ req[RouteProc].pc = "upsert"
          /\ req'[RouteProc].pc = "done"
          /\ ~req'[RouteProc].putErr
          /\ req[RouteProc].fresh = MockValue )
        => RowsOf(cache', req[RouteProc].key) = {req[RouteProc].pending}
     /\ ( /\ req[RouteProc].pc = "select"
          /\ req'[RouteProc].pc # "select"
          /\ req[RouteProc].client = "real"
          /\ ~req'[RouteProc].readErr
          /\ \E r \in RowsOf(cache, req[RouteProc].key) :
               r.value = MockValue /\ now < r.written_at + HourMs )
        => /\ req'[RouteProc].pc = "done"
           /\ req'[RouteProc].outcome = Returned(MockValue)
           /\ req'[RouteProc].calls = 0
           /\ http'.extCalls = 0
     /\ ( /\ http.pc = "awaiting"
          /\ http'.pc = "responded"
          /\ req[RouteProc].hit )
        => /\ http'.status = 200
           /\ http'.body = req[RouteProc].outcome.value
           /\ http'.extCalls = 0
           /\ http'.produced = "none"]_vars

\* a request to the Twitter or the official-updates route is answered from
\* an entry that holds the mock result its adapter fell back to, written
\* earlier and less than an hour ago, without an external call
C16_Witness ==
  /\ http.pc = "responded"
  /\ http.route \in {"twitter", "official_updates"}
  /\ http.status = 200 /\ http.body = MockValue
  /\ http.extCalls = 0
  /\ req[RouteProc].hit /\ req[RouteProc].calls = 0
  /\ \E r \in RowsOf(cache, req[RouteProc].key) :
       /\ r.value = MockValue
       /\ r.written_at < now
       /\ now < r.written_at + HourMs

\* C17: two requests to one route whose producer inputs differ get different
\* cache keys, and two requests to different routes get different cache keys
C17_KeysInjective ==
  pair.pc = "keys"
    => /\ ( /\ pair.a.route = pair.b.route
            /\ ProducerInput(pair.a.route, pair.a.q)
                 # ProducerInput(pair.b.route, pair.b.q) )
          => pair.ka # pair.kb
       /\ pair.a.route # pair.b.route => pair.ka # pair.kb

\* C18: whatever scrapeOfficialUpdates returned is not empty, and when the
\* fetch did not succeed or the page gave no update it is the mock payload,
\* which has exactly 3 entries
C18_ScrapeNeverEmpty ==
  (http.route = "official_updates" /\ http.produced # "none")
    => /\ Len(http.list) > 0
       /\ (http.answer # "ok" \/ http.extracted = 0)
            => /\ http.list = generateMockOfficialUpdates(http.q.source)
               /\ Len(http.list) = 3
               /\ http.produced = MockValue
       /\ (http.answer = "ok" /\ http.extracted > 0)
            => /\ Len(http.list) <= http.extracted
               /\ http.produced = LiveValue

\* the page was fetched, none of its elements gave an update, and the three
\* mock updates were returned and sent to the client
C18_Witness ==
  /\ http.route = "official_updates"
  /\ http.pc = "responded" /\ http.status = 200
  /\ http.answer = "ok" /\ http.extracted = 0
  /\ Len(http.list) = 3
  /\ http.body = MockValue

\* the inputs the routes must refuse: a text that is missing, empty or longer
\* than 500 characters, a reverse lookup without lat or lon
Malformed(route, q) ==
  \/ /\ route = "geocode"
     /\ (~q.text.given \/ Len(q.text.s) = 0 \/ Len(q.text.s) > 500)
  \/ /\ route = "reverse_geocode"
     /\ (~q.lat.given \/ ~q.lon.given)

\* C19: a request with malformed input is answered with status 400 in the
\* step that receives it: no getOrSetCache call is started, no fetcher
\* invoked, no external call sent, and the cache table stays as it was
C19_ValidationBeforeCache ==
  [][(http' # http /\ Malformed(http'.route, http'.q))
       => /\ http'.pc = "responded"
          /\ http'.status = 400
          /\ http'.produced = "none"
          /\ http'.extCalls = 0
          /\ req' = req
          /\ started' = started
          /\ cache' = cache]_vars

\* with an entry in the cache, a text of more than 500 characters was
\* answered with 400
C19_Witness ==
  /\ http.pc = "responded"
  /\ http.status = 400
  /\ http.route = "geocode"
  /\ Len(http.q.text.s) > 500
  /\ req[RouteProc].pc = "done"
  /\ cache # {}

\* C20: every external call in flight was sent with a timeout, so that it
\* ends even if the upstream never answers
C20_BoundedTimeouts ==
  http.pc = "external" => ExtTimeoutMs(http.ext) > 0

\* C21: PUT and DELETE /disasters/:id change the record only for its owner
\* or an admin.  When the select answered a record that the requesting user
\* neither owns nor administers, the request is answered 403, has changed
\* no row and has emitted no event; and a step in which such a request
\* changes the disasters table is taken by the owner of the stored row or by
\* an admin.
C21_OwnershipCheck ==
  [][ \A p \in Procs :
        /\ ( /\ api'[p].table = "disasters"
             /\ api'[p].method \in {"PUT", "DELETE"}
             /\ api'[p].found
             /\ api'[p].existing.owner_id # api'[p].user.id
             /\ api'[p].user.role # "admin" )
           => /\ api'[p].pc = "done"
              /\ api'[p].status = 403
              /\ api'[p].writes = 0
              /\ api'[p].emitted = << >>
        /\ ( /\ api[p].table = "disasters"
             /\ api[p].pc \in {"update", "delete"}
             /\ api'[p].pc = "done"
             /\ store'.disasters # store.disasters )
           => \A x \in store.disasters :
                x.id = api[p].path
                  => \/ x.owner_id = api[p].user.id
                     \/ api[p].user.role = "admin" ]_vars

\* a contributor's PUT to the admin's disaster was answered 403 while the
\* other request, the admin's own PUT, changed the record
C21_Witness ==
  \E p, o \in Procs :
    /\ api[p].table = "disasters" /\ api[p].method = "PUT"
    /\ api[p].found /\ api[p].existing.owner_id = "u1"
    /\ api[p].user.id = "u2" /\ api[p].status = 403
    /\ api[o].method = "PUT" /\ api[o].user.id = "u1" /\ api[o].writes = 1

\* C22: a create, update or delete of a disaster or of a single resource
\* that is answered 200, 201 or 204 has emitted exactly one event, named
\* after its table and typed after its operation, and the event is emitted
\* in the step in which the awaited write answered without an error; a
\* request that ends otherwise (400, 403, 404, 500) has emitted nothing.
C22_EmitFollowsWrite ==
  [][ \A p \in Procs :
        LET r == api'[p]
        IN r.handler \in {<<"POST", "/">>, <<"PUT", "/:id">>,
                          <<"DELETE", "/:id">>}
           => /\ r.emitted # api[p].emitted
                 => /\ api[p].pc \in {"insert", "update", "delete"}
                    /\ ~r.dbError
                    /\ r.pc = "done"
              /\ r.pc = "done"
                 => IF r.status \in {200, 201, 204}
                    THEN r.emitted =
                           <<Event(r.table,
                                   CASE r.method = "POST" -> "created"
                                     [] r.method = "PUT" -> "updated"
                                     [] r.method = "DELETE" -> "deleted")>>
                    ELSE r.emitted = << >> ]_vars

\* a PUT was answered 200 after one 'updated' event while the other request,
\* whose write the datastore refused, was answered 500 without an event
C22_Witness ==
  \E p, o \in Procs :
    /\ api[p].method = "PUT" /\ api[p].status = 200
    /\ api[p].emitted = <<Event("disasters", "updated")>>
    /\ api[o].pc = "done" /\ api[o].dbError /\ api[o].status = 500
    /\ api[o].emitted = << >>

\* C23: GET, PUT and DELETE /disasters/:id for an id that has no record are
\* answered 404 without a write and without an event, with the real client
\* and with the mock client alike (the body valid, the select answered
\* without a datastore failure).
C23_AbsentIs404 ==
  \A p \in Procs :
    ( /\ api[p].pc = "done"
      /\ api[p].table = "disasters"
      /\ api[p].handler \in {<<"GET", "/:id">>, <<"PUT", "/:id">>,
                             <<"DELETE", "/:id">>}
      /\ validate_ok(api[p].table, api[p].handler, api[p].body)
      /\ ~api[p].found
      /\ ~api[p].dbError )
    => /\ api[p].status = 404
       /\ api[p].writes = 0
       /\ api[p].emitted = << >>

\* C26: errorHandler answers an error named ValidationError with 400, one
\* named UnauthorizedError with 401, otherwise one with the code PGRST116
\* with 404 and every other error with 500; unless NODE_ENV is
\* 'development' the 500 body is exactly {error: 'Internal server error'},
\* without the message and without the stack.
C26_ErrorMapping ==
  fault.pc = "answered"
    => LET err == fault.err
           res == fault.res
       IN /\ err.name = "ValidationError" => res.status = 400
          /\ err.name = "UnauthorizedError" => res.status = 401
          /\ ( /\ err.name \notin {"ValidationError", "UnauthorizedError"}
               /\ err.code = "PGRST116" ) => res.status = 404
          /\ ( /\ err.name \notin {"ValidationError", "UnauthorizedError"}
               /\ err.code # "PGRST116" )
             => /\ res.status = 500
                /\ fault.NODE_ENV # "development"
                   => /\ res.error = "Internal server error"
                      /\ res.details = NoValue
                      /\ res.stack = NoValue

\* a datastore failure was answered 500 with the fixed body while NODE_ENV
\* is not set
C26_Witness ==
  /\ fault.pc = "answered"
  /\ fault.err.name = "Error" /\ fault.err.code = "23505"
  /\ fault.NODE_ENV = Absent
  /\ fault.res.status = 500 /\ fault.res.error = "Internal server error"

\* C24: GET /resources/nearby with lat and lon is dispatched to the nearby
\* handler and GET /resources/types to the types handler, not to the
\* handler of GET /resources/:id.
C24_FixedPathsReachable ==
  \A p \in Procs :
    ( /\ api[p].pc # "idle"
      /\ api[p].table = "resources"
      /\ api[p].method = "GET" )
    => /\ ( /\ api[p].path = "nearby"
            /\ ParamTruthy(api[p].query.lat)
            /\ ParamTruthy(api[p].query.lon) )
          => api[p].handler = <<"GET", "/nearby">>
       /\ api[p].path = "types" => api[p].handler = <<"GET", "/types">>

\* C25: a DELETE /disasters/:id for the id that a POST /disasters answered
\* with 201 is answered 204, whichever users authMiddleware attached to the
\* two requests (the record still there, the datastore answering without a
\* failure).
C25_CreateThenDelete ==
  \A p, o \in Procs :
    ( /\ api[o].pc = "done"
      /\ api[o].handler = <<"POST", "/">>
      /\ api[o].table = "disasters"
      /\ api[o].status = 201
      /\ api[p].pc = "done"
      /\ api[p].table = "disasters"
      /\ api[p].handler = <<"DELETE", "/:id">>
      /\ api[p].path = api[o].data.id
      /\ api[p].found
      /\ ~api[p].dbError )
    => api[p].status = 204

\* C27: the audit_trail of a disaster is its 'created' entry followed by one
\* 'updated' entry per update that the datastore applied to the record,
\* also when PUT requests interleave.
C27_AuditTrailComplete ==
  \A x \in store.disasters :
    /\ Len(x.audit_trail) = 1 + x.updates
    /\ x.audit_trail[1].action = "created"
    /\ \A i \in 2..Len(x.audit_trail) : x.audit_trail[i].action = "updated"

\* C28: a create or update of a disaster or of a resource that is answered
\* with the stored record has location POINT(lon lat) when the body supplied
\* both lat and lon, zero included, and null only when one was omitted.
C28_CoordinatesStored ==
  \A p \in Procs :
    ( /\ api[p].pc = "done"
      /\ api[p].handler \in {<<"POST", "/">>, <<"PUT", "/:id">>}
      /\ api[p].status \in {200, 201} )
    => api[p].data.location =
         IF api[p].body.lat.given /\ api[p].body.lon.given
         THEN Point(api[p].body.lon.n, api[p].body.lat.n)
         ELSE NullLocation

C30_MockServesCrud ==
  \A p \in Procs :
    ( /\ reqSupabase(env) = "mock"
      /\ api[p].pc = "done"
      /\ api[p].table = "disasters"
      /\ validate_ok(api[p].table, api[p].handler, api[p].body) )
    => /\ api[p].handler = <<"POST", "/">>
          => api[p].status = 201 /\ api[p].data.id # ""
       /\ api[p].handler = <<"GET", "/">> => api[p].status = 200

====
